---- MODULE Spec2Model ----
(***************************************************************************)
(* The /chat relay of ai_flow_runner_backend: the request handler          *)
(* (src/server.js and its workflow-only variant src/unnamed/part_000), the *)
(* resilient completion client callAIAgent in its OpenRouter and Groq      *)
(* variants (src/aiService.js), the language normalizer and the book       *)
(* helpers (src/bookService.js).                                           *)
(*                                                                         *)
(* JavaScript strings are tuples of one-character strings, so that         *)
(* toLowerCase, trim and includes are computed and not assumed.  A         *)
(* character outside ASCII is the one-element string "U+XXXX".  Every      *)
(* JavaScript value carries its type in the field t.                       *)
(***************************************************************************)
EXTENDS Integers, Sequences, FiniteSets, TLC

VARIABLES
  server,         \* which handler is deployed: "book_chatbot" (server.js) or "workflow" (part_000)
  client,         \* which aiService.js is deployed: "openrouter" or "groq"
  production,     \* process.env.NODE_ENV === 'production'
  allChunks,      \* bookService.js: the chunk table loaded at start
  pc,             \* where the one request is in the handler
  req,            \* req.body as the caller sent it
  normalizedLang, \* server.js: const normalizedLang
  callText,       \* callAIAgent's argument text (the prompt)
  callHistory,    \* callAIAgent's argument history
  retryCount,     \* callAIAgent's argument retryCount of the running invocation
  sent,           \* the message list of every upstream call made, in order
  sleeps,         \* the delay of every sleep taken, in order
  attempts,       \* how every attempt ended: "success", "rate_limited", "failed"
  upstream,       \* what the provider did last: a completion's content, or a throw
  result,         \* what callAIAgent returned / what the handler caught
  res,            \* the HTTP responses emitted, in order
  stages,         \* the handler stages run, in order
  calls           \* concurrent requests: each request's own callAIAgent invocation

vars == <<server, client, production, allChunks, pc, req, normalizedLang, callText,
          callHistory, retryCount, sent, sleeps, attempts, upstream, result,
          res, stages, calls>>

-----------------------------------------------------------------------------
(* JavaScript values *)

Undef == [t |-> "undefined"]

Str(s) == [t |-> "string", s |-> s]

Num(n) == [t |-> "number", n |-> n]

Arr(a) == [t |-> "array", a |-> a]

\* ToBoolean: undefined, '', 0 are falsy; objects, arrays and functions are truthy
Truthy(v) ==
  CASE v.t = "undefined" -> FALSE
    [] v.t = "string" -> v.s # <<>>
    [] v.t = "number" -> v.n # 0
    [] v.t = "boolean" -> v.b
    [] OTHER -> TRUE

\* a || b
OrElse(a, b) == IF Truthy(a) THEN a ELSE b

\* v.field, and v?.field: undefined when v has no such property
Get(v, f) == IF f \in DOMAIN v THEN v[f] ELSE Undef

-----------------------------------------------------------------------------
(* String.prototype.toLowerCase, trim, includes, replace(/\s+/g, ' ') *)

LowerChar(c) ==
  CASE c = "A" -> "a" [] c = "B" -> "b" [] c = "C" -> "c" [] c = "D" -> "d"
    [] c = "E" -> "e" [] c = "F" -> "f" [] c = "G" -> "g" [] c = "H" -> "h"
    [] c = "I" -> "i" [] c = "J" -> "j" [] c = "K" -> "k" [] c = "L" -> "l"
    [] c = "M" -> "m" [] c = "N" -> "n" [] c = "O" -> "o" [] c = "P" -> "p"
    [] c = "Q" -> "q" [] c = "R" -> "r" [] c = "S" -> "s" [] c = "T" -> "t"
    [] c = "U" -> "u" [] c = "V" -> "v" [] c = "W" -> "w" [] c = "X" -> "x"
    [] c = "Y" -> "y" [] c = "Z" -> "z" [] OTHER -> c

toLowerCase(s) == [i \in 1..Len(s) |-> LowerChar(s[i])]

IsSpace(c) == c \in {" ", "\t", "\n", "\r"}

trim(s) ==
  LET keep == {i \in 1..Len(s) : ~IsSpace(s[i])}
  IN  IF keep = {} THEN <<>>
      ELSE SubSeq(s, CHOOSE i \in keep : \A j \in keep : i <= j,
                     CHOOSE i \in keep : \A j \in keep : j <= i)

includes(s, sub) ==
  \E i \in 0..(Len(s) - Len(sub)) : SubSeq(s, i + 1, i + Len(sub)) = sub

RECURSIVE collapseSpaces(_)
collapseSpaces(s) ==
  IF s = <<>> THEN <<>>
  ELSE IF IsSpace(s[1])
       THEN IF Len(s) > 1 /\ IsSpace(s[2]) THEN collapseSpaces(Tail(s))
            ELSE <<" ">> \o collapseSpaces(Tail(s))
       ELSE <<s[1]>> \o collapseSpaces(Tail(s))

RECURSIVE join(_, _)
join(parts, sep) ==
  IF parts = <<>> THEN <<>>
  ELSE IF Len(parts) = 1 THEN parts[1]
  ELSE parts[1] \o sep \o join(Tail(parts), sep)

\* s.split(sep) for a one-character separator
RECURSIVE split(_, _)
split(s, sep) ==
  IF \A i \in 1..Len(s) : s[i] # sep THEN <<s>>
  ELSE LET k == CHOOSE i \in 1..Len(s) : s[i] = sep /\ \A j \in 1..(i - 1) : s[j] # sep
       IN  <<SubSeq(s, 1, k - 1)>> \o split(SubSeq(s, k + 1, Len(s)), sep)

\* a.slice(from, to)
slice(a, from, to) == SubSeq(a, from + 1, IF to <= Len(a) THEN to ELSE Len(a))

\* error.stack as V8 writes it at construction: the header, then one line per frame
StackTrace(header, frames) == join(<<header>> \o frames, <<"\n">>)

\* String(v) of a value interpolated in a template literal
StringOf(v) ==
  CASE v.t = "string" -> v.s
    [] v.t = "undefined" -> <<"u","n","d","e","f","i","n","e","d">>
    [] v.t = "function" -> <<"f","u","n","c","t","i","o","n"," ","O","b","j","e","c","t","(",")"," ","{"," ","[","n","a","t","i","v","e"," ","c","o","d","e","]"," ","}">>
    [] OTHER -> <<"[","o","b","j","e","c","t"," ","O","b","j","e","c","t","]">>

-----------------------------------------------------------------------------
(* Language tables *)

LanguageCodes ==
  {<<"e","n">>, <<"t","a">>, <<"h","i">>, <<"e","s">>, <<"f","r">>, <<"d","e">>, <<"j","a">>, <<"z","h">>, <<"k","o">>, <<"a","r">>,
   <<"p","t">>, <<"t","e">>, <<"m","l">>}

LANGUAGE_NAMES ==
  (<<"e","n">> :> <<"E","n","g","l","i","s","h">>) @@ (<<"t","a">> :> <<"T","a","m","i","l">>) @@ (<<"h","i">> :> <<"H","i","n","d","i">>) @@
  (<<"e","s">> :> <<"S","p","a","n","i","s","h">>) @@ (<<"f","r">> :> <<"F","r","e","n","c","h">>) @@ (<<"d","e">> :> <<"G","e","r","m","a","n">>) @@
  (<<"j","a">> :> <<"J","a","p","a","n","e","s","e">>) @@ (<<"z","h">> :> <<"C","h","i","n","e","s","e">>) @@ (<<"k","o">> :> <<"K","o","r","e","a","n">>) @@
  (<<"a","r">> :> <<"A","r","a","b","i","c">>) @@ (<<"p","t">> :> <<"P","o","r","t","u","g","u","e","s","e">>) @@ (<<"t","e">> :> <<"T","e","l","u","g","u">>) @@
  (<<"m","l">> :> <<"M","a","l","a","y","a","l","a","m">>)

BOOK_LANGUAGE_DISPLAY ==
  (<<"e","n">> :> <<"E","n","g","l","i","s","h">>) @@ (<<"t","a">> :> <<"T","a","m","i","l"," ","(","U+0BA4","U+0BAE","U+0BBF","U+0BB4","U+0BCD",")">>) @@
  (<<"h","i">> :> <<"H","i","n","d","i"," ","(","U+0939","U+093F","U+0902","U+0926","U+0940",")">>) @@ (<<"e","s">> :> <<"S","p","a","n","i","s","h">>) @@
  (<<"f","r">> :> <<"F","r","e","n","c","h">>) @@ (<<"d","e">> :> <<"G","e","r","m","a","n"," ","(","D","e","u","t","s","c","h",")">>) @@
  (<<"j","a">> :> <<"J","a","p","a","n","e","s","e">>) @@ (<<"z","h">> :> <<"C","h","i","n","e","s","e">>) @@ (<<"k","o">> :> <<"K","o","r","e","a","n">>) @@
  (<<"a","r">> :> <<"A","r","a","b","i","c">>) @@ (<<"p","t">> :> <<"P","o","r","t","u","g","u","e","s","e">>) @@
  (<<"t","e">> :> <<"T","e","l","u","g","u"," ","(","U+0C24","U+0C46","U+0C32","U+0C41","U+0C17","U+0C41",")">>) @@ (<<"m","l">> :> <<"M","a","l","a","y","a","l","a","m"," ","(","U+0D2E","U+0D32","U+0D2F","U+0D3E","U+0D33","U+0D02",")">>)

BOOK_LANGUAGE_MAP ==
  (<<"e","n">> :> <<"e","n","g","l","i","s","h">>) @@ (<<"t","a">> :> <<"t","a","m","i","l">>) @@ (<<"h","i">> :> <<"h","i","n","d","i">>) @@
  (<<"e","s">> :> <<"s","p","a","n","i","s","h">>) @@ (<<"f","r">> :> <<"f","r","e","n","c","h">>) @@ (<<"d","e">> :> <<"g","e","r","m","a","n">>) @@
  (<<"j","a">> :> <<"j","a","p","a","n","e","s","e">>) @@ (<<"z","h">> :> <<"c","h","i","n","e","s","e">>) @@ (<<"k","o">> :> <<"k","o","r","e","a","n">>) @@
  (<<"a","r">> :> <<"a","r","a","b","i","c">>) @@ (<<"p","t">> :> <<"p","o","r","t","u","g","u","e","s","e">>) @@ (<<"t","e">> :> <<"t","e","l","u","g","u">>) @@
  (<<"m","l">> :> <<"m","a","l","a","y","a","l","a","m">>)

LANGUAGE_NAME_TO_CODE ==
  (<<"e","n","g","l","i","s","h">> :> <<"e","n">>) @@ (<<"t","a","m","i","l">> :> <<"t","a">>) @@ (<<"h","i","n","d","i">> :> <<"h","i">>) @@
  (<<"s","p","a","n","i","s","h">> :> <<"e","s">>) @@ (<<"f","r","e","n","c","h">> :> <<"f","r">>) @@ (<<"g","e","r","m","a","n">> :> <<"d","e">>) @@
  (<<"j","a","p","a","n","e","s","e">> :> <<"j","a">>) @@ (<<"c","h","i","n","e","s","e">> :> <<"z","h">>) @@ (<<"k","o","r","e","a","n">> :> <<"k","o">>) @@
  (<<"a","r","a","b","i","c">> :> <<"a","r">>) @@ (<<"p","o","r","t","u","g","u","e","s","e">> :> <<"p","t">>) @@ (<<"t","e","l","u","g","u">> :> <<"t","e">>) @@
  (<<"m","a","l","a","y","a","l","a","m">> :> <<"m","l">>)

\* What an object literal inherits from Object.prototype: table[key] finds these
\* when the table has no own property key.
ObjectPrototype ==
  (<<"c","o","n","s","t","r","u","c","t","o","r">> :> [t |-> "function", name |-> "Object"]) @@
  (<<"_","_","p","r","o","t","o","_","_">> :> [t |-> "object", name |-> "Object.prototype"]) @@
  (<<"t","o","S","t","r","i","n","g">> :> [t |-> "function", name |-> "toString"]) @@
  (<<"v","a","l","u","e","O","f">> :> [t |-> "function", name |-> "valueOf"]) @@
  (<<"h","a","s","O","w","n","P","r","o","p","e","r","t","y">> :> [t |-> "function", name |-> "hasOwnProperty"])

\* table[key] for an object literal table and a string key
Lookup(table, key) ==
  IF key \in DOMAIN table THEN Str(table[key])
  ELSE IF key \in DOMAIN ObjectPrototype THEN ObjectPrototype[key]
  ELSE Undef

\* table[key] when key is any value: the property name is String(key)
LookupValue(table, key) == Lookup(table, StringOf(key))

-----------------------------------------------------------------------------
(* bookService.js *)

\* The error a method call on a value without that method throws
TypeError(msg) ==
  [t |-> "object", name |-> "TypeError", message |-> Str(msg),
   stack |-> Str(StackTrace(<<"T","y","p","e","E","r","r","o","r",":"," ">> \o msg,
                            <<<<" "," "," "," ","a","t"," ","n","o","r","m","a","l","i","z","e","L","a","n","g","u","a","g","e">>, <<" "," "," "," ","a","t"," ","/","c","h","a","t">>,
                              <<" "," "," "," ","a","t"," ","L","a","y","e","r",".","h","a","n","d","l","e">>, <<" "," "," "," ","a","t"," ","n","e","x","t">>>>))]

\* normalizeLanguage returns [ok |-> TRUE, v |-> value] or [ok |-> FALSE, e |-> error]
normalizeLanguage(language) ==
  IF ~Truthy(language) THEN [ok |-> TRUE, v |-> Str(<<"e","n">>)]
  ELSE IF language.t # "string"
  THEN [ok |-> FALSE, e |-> TypeError(<<"l","a","n","g","u","a","g","e",".","t","o","L","o","w","e","r","C","a","s","e"," ","i","s"," ","n","o","t"," ","a"," ","f","u","n","c","t","i","o","n">>)]
  ELSE LET langLower == trim(toLowerCase(language.s))
       IN  IF Len(langLower) = 2 /\ Truthy(Lookup(BOOK_LANGUAGE_MAP, langLower))
           THEN [ok |-> TRUE, v |-> Str(langLower)]
           ELSE IF Truthy(Lookup(LANGUAGE_NAME_TO_CODE, langLower))
           THEN [ok |-> TRUE, v |-> Lookup(LANGUAGE_NAME_TO_CODE, langLower)]
           ELSE [ok |-> TRUE, v |-> Str(<<"e","n">>)]

\* getBookContent: the chunks of one language joined, '' when there are none
getBookContent(chunks, language) ==
  IF Len(chunks) = 0 THEN [ok |-> TRUE, v |-> <<>>]
  ELSE LET n == normalizeLanguage(language)
       IN  IF ~n.ok THEN n
           ELSE LET langCode == n.v
                    mapped == LookupValue(BOOK_LANGUAGE_MAP, langCode)
                    langKey == IF Truthy(mapped) THEN mapped.s
                               ELSE toLowerCase(language.s)
                    languageChunks ==
                      SelectSeq(chunks, LAMBDA c :
                        /\ Truthy(Str(c.language))
                        /\ toLowerCase(c.language) = toLowerCase(langKey))
                IN  IF Len(languageChunks) = 0 THEN [ok |-> TRUE, v |-> <<>>]
                    ELSE [ok |-> TRUE,
                          v |-> join([i \in 1..Len(languageChunks) |-> languageChunks[i].text],
                                     <<"\n","\n","-","-","-","\n","\n">>)]

formatChatHistory(history) ==
  IF Len(history) = 0 THEN <<>>
  ELSE LET line(m) == (IF m.role = "user" THEN <<"U","s","e","r">> ELSE <<"A","s","s","i","s","t","a","n","t">>)
                      \o <<":"," ">> \o m.content
           formatted == join([i \in 1..Len(history) |-> line(history[i])], <<"\n">>)
       IN  <<"\n","P","R","E","V","I","O","U","S"," ","C","O","N","V","E","R","S","A","T","I","O","N",":","\n">> \o formatted \o <<"\n">>

isBookChatbotRequest(stepType) == ~Truthy(stepType) \/ stepType = Str(<<"b","o","o","k","_","c","h","a","t">>)

-----------------------------------------------------------------------------
(* aiService.js: prompts *)

\* A template literal: the fixed text of template tpl with its interpolations
Rendered(tpl, fields) == [t |-> "rendered", tpl |-> tpl] @@ fields

getBookChatbotPrompt(bookContent, question, language, history) ==
  LET targetLang == OrElse(LookupValue(BOOK_LANGUAGE_DISPLAY, language), language)
      chatHistory == formatChatHistory(history)
  IN  Rendered("book_chat",
        [bookContent |-> IF bookContent # <<>> THEN bookContent
                         ELSE <<"N","o"," ","b","o","o","k"," ","c","o","n","t","e","n","t"," ","a","v","a","i","l","a","b","l","e"," ","f","o","r"," ","t","h","i","s"," ","l","a","n","g","u","a","g","e",".">>,
         chatHistory |-> chatHistory,
         question |-> StringOf(question),
         targetLang |-> StringOf(targetLang)])

\* processStepWithAI's switch: the prompt it hands to callAIAgent
StepPrompt(stepType, text, language) ==
  LET name == OrElse(LookupValue(LANGUAGE_NAMES, language), Str(<<"E","n","g","l","i","s","h">>))
  IN  CASE stepType = Str(<<"c","l","e","a","n","_","t","e","x","t">>) -> Rendered("clean_text", [text |-> StringOf(text)])
        [] stepType = Str(<<"d","e","t","e","c","t","_","e","m","o","t","i","o","n">>) ->
             Rendered("detect_emotion", [text |-> StringOf(text)])
        [] stepType = Str(<<"c","a","t","e","g","o","r","i","z","e","_","t","e","x","t">>) ->
             Rendered("categorize_text", [text |-> StringOf(text)])
        [] stepType = Str(<<"s","u","m","m","a","r","i","z","e">>) ->
             Rendered("summarize", [text |-> StringOf(text), lang |-> StringOf(name)])
        [] stepType = Str(<<"t","r","a","n","s","l","a","t","e">>) ->
             Rendered("translate", [text |-> StringOf(text), lang |-> StringOf(name)])
        [] OTHER -> text

UpperChar(c) ==
  CASE c = "a" -> "A" [] c = "b" -> "B" [] c = "c" -> "C" [] c = "d" -> "D"
    [] c = "e" -> "E" [] c = "f" -> "F" [] c = "g" -> "G" [] c = "h" -> "H"
    [] c = "i" -> "I" [] c = "j" -> "J" [] c = "k" -> "K" [] c = "l" -> "L"
    [] c = "m" -> "M" [] c = "n" -> "N" [] c = "o" -> "O" [] c = "p" -> "P"
    [] c = "q" -> "Q" [] c = "r" -> "R" [] c = "s" -> "S" [] c = "t" -> "T"
    [] c = "u" -> "U" [] c = "v" -> "V" [] c = "w" -> "W" [] c = "x" -> "X"
    [] c = "y" -> "Y" [] c = "z" -> "Z" [] OTHER -> c

\* emotion.charAt(0).toUpperCase() + emotion.slice(1)
Capitalize(w) == <<UpperChar(w[1])>> \o Tail(w)

emotions == <<<<"s","t","r","e","s","s","e","d">>, <<"h","a","p","p","y">>, <<"s","a","d">>, <<"a","n","g","r","y">>, <<"n","e","u","t","r","a","l">>>>

\* The scan made on the text as it came, without lower-casing it
formatEmotionResultCaseSensitive(r) ==
  LET lowerResult == trim(r)
      hits == {i \in 1..Len(emotions) : includes(lowerResult, emotions[i])}
  IN  IF hits = {} THEN <<"N","e","u","t","r","a","l">>
      ELSE Capitalize(emotions[CHOOSE i \in hits : \A j \in hits : i <= j])

formatEmotionResult(r) ==
  LET lowerResult == trim(toLowerCase(r))
      hits == {i \in 1..Len(emotions) : includes(lowerResult, emotions[i])}
  IN  IF hits = {} THEN <<"N","e","u","t","r","a","l">>
      ELSE Capitalize(emotions[CHOOSE i \in hits : \A j \in hits : i <= j])

categories ==
  <<<<"W","o","r","k"," ","&"," ","C","a","r","e","e","r">>, <<"F","a","m","i","l","y"," ","&"," ","R","e","l","a","t","i","o","n","s","h","i","p","s">>, <<"H","e","a","l","t","h"," ","&"," ","W","e","l","l","n","e","s","s">>,
    <<"F","i","n","a","n","c","e"," ","&"," ","M","o","n","e","y">>, <<"P","e","r","s","o","n","a","l"," ","&"," ","G","e","n","e","r","a","l">>>>

formatCategoryResult(r) ==
  LET lowerResult == trim(toLowerCase(r))
      hits == {i \in 1..Len(categories) :
                 includes(lowerResult, collapseSpaces(toLowerCase(categories[i])))}
  IN  IF hits = {} THEN <<"P","e","r","s","o","n","a","l"," ","&"," ","G","e","n","e","r","a","l">>
      ELSE categories[CHOOSE i \in hits : \A j \in hits : i <= j]

-----------------------------------------------------------------------------
(* aiService.js: callAIAgent *)

MAX_RETRIES == 3

INITIAL_DELAY == 2000

MAX_DELAY == 30000

Min(a, b) == IF a <= b THEN a ELSE b

\* The delay without the exponent: the same pause before every retry
BackoffDelayConstant(k) == Min(INITIAL_DELAY, MAX_DELAY)

\* The delay growing by a fixed step instead of doubling
BackoffDelayLinear(k) == Min(INITIAL_DELAY * (k + 1), MAX_DELAY)

\* Math.min(INITIAL_DELAY * Math.pow(2, retryCount), MAX_DELAY)
BackoffDelay(k) == Min(INITIAL_DELAY * (2 ^ k), MAX_DELAY)

\* The history copied newest first
MessagesNewestFirst(text, history) ==
  [i \in 1..Len(history) |-> [role |-> history[Len(history) + 1 - i].role,
                              content |-> history[Len(history) + 1 - i].content]]
    \o <<[role |-> "user", content |-> text]>>

\* The outgoing message list: the history's role and content, then the user turn
Messages(text, history) ==
  [i \in 1..Len(history) |-> [role |-> history[i].role, content |-> history[i].content]]
    \o <<[role |-> "user", content |-> text]>>

NoResponse == [t |-> "object", name |-> "Error", message |-> Str(<<"N","o"," ","r","e","s","p","o","n","s","e"," ","f","r","o","m"," ","A","I"," ","a","g","e","n","t">>)]

\* String(response): an array is its elements' strings joined by ','
StringOfContent(v) ==
  CASE v.t = "string" -> v.s
    [] v.t = "array" -> join([i \in 1..Len(v.a) |-> <<"[","o","b","j","e","c","t"," ","O","b","j","e","c","t","]">>], <<",">>)
    [] OTHER -> StringOf(v)

\* The text-typed segments' text, '' for a segment without text, concatenated
TextParts(segs) ==
  LET texts == SelectSeq(segs, LAMBDA item : Get(item, "type") = Str(<<"t","e","x","t">>))
  IN  join([i \in 1..Len(texts) |-> OrElse(Get(texts[i], "text"), Str(<<>>)).s], <<>>)

\* What the try block does with the first choice's content:
\* [ok |-> TRUE, v |-> returned text] or [ok |-> FALSE, e |-> thrown error]
Extract(cl, response) ==
  IF ~Truthy(response) THEN [ok |-> FALSE, e |-> NoResponse]
  ELSE IF cl = "groq" THEN [ok |-> TRUE, v |-> trim(StringOfContent(response))]
  ELSE IF response.t = "string" THEN [ok |-> TRUE, v |-> trim(response.s)]
  ELSE IF response.t = "array" THEN [ok |-> TRUE, v |-> trim(TextParts(response.a))]
  ELSE [ok |-> TRUE, v |-> trim(StringOfContent(response))]

\* let errorMessage
ErrorMessage(error) ==
  IF Truthy(Get(error, "message")) THEN error.message.s
  ELSE IF Truthy(Get(Get(error, "error"), "message")) THEN error.error.message.s
  ELSE IF error.t = "string" THEN error.s
  ELSE <<"U","n","k","n","o","w","n"," ","e","r","r","o","r">>

\* let errorCode
ErrorCode(cl, error) ==
  IF Truthy(Get(error, "status")) THEN error.status
  ELSE IF Truthy(Get(error, "statusCode")) THEN error.statusCode
  ELSE IF Truthy(Get(error, "code")) /\ error.code.t = "number" THEN error.code
  ELSE IF Truthy(Get(Get(error, "response"), "status")) THEN error.response.status
  ELSE IF cl = "groq" /\ Truthy(Get(Get(error, "error"), "code")) THEN error.error.code
  ELSE Num(500)

\* let errorBody (null is falsy like undefined)
ErrorBody(error) ==
  IF Truthy(Get(error, "body")) THEN error.body
  ELSE IF Truthy(Get(Get(error, "response"), "data")) THEN error.response.data
  ELSE IF Truthy(Get(error, "error")) THEN error.error
  ELSE Undef

\* const isRateLimit (its truthiness)
IsRateLimit(cl, error) ==
  LET errorMessage == toLowerCase(ErrorMessage(error))
      errorBody == ErrorBody(error)
  IN  \/ ErrorCode(cl, error) = Num(429)
      \/ includes(errorMessage, <<"r","a","t","e">>)
      \/ includes(errorMessage, <<"l","i","m","i","t">>)
      \/ cl = "groq" /\ includes(errorMessage, <<"q","u","o","t","a">>)
      \/ /\ Truthy(errorBody)
         /\ errorBody.t = "string"
         /\ \/ includes(toLowerCase(errorBody.s), <<"r","a","t","e">>)
            \/ cl = "groq" /\ includes(toLowerCase(errorBody.s), <<"q","u","o","t","a">>)

\* The retry test off by one: a fourth retry
ShouldRetryOffByOne(cl, error, k) == IsRateLimit(cl, error) /\ k <= MAX_RETRIES

\* The retry test without the classification: every failure is retried
ShouldRetryAnyFailure(cl, error, k) == k < MAX_RETRIES

\* if (isRateLimit && retryCount < MAX_RETRIES)
ShouldRetry(cl, error, k) == IsRateLimit(cl, error) /\ k < MAX_RETRIES

MsgRetried ==
  <<"R","a","t","e"," ","l","i","m","i","t"," ","e","x","c","e","e","d","e","d","."," ","R","e","t","r","i","e","d"," ","3"," ","t","i","m","e","s","."," ","P","l","e","a","s","e"," ","w","a","i","t"," ","3","0","-","6","0"," ","s","e","c","o","n","d","s"," ","a","n","d"," ","t","r","y"," ","a","g","a","i","n",".">>

MsgRateLimited(cl) ==
  IF cl = "groq" THEN <<"R","a","t","e"," ","l","i","m","i","t"," ","e","x","c","e","e","d","e","d","."," ","P","l","e","a","s","e"," ","w","a","i","t"," ","1","0","-","1","5"," ","s","e","c","o","n","d","s"," ","a","n","d"," ","t","r","y"," ","a","g","a","i","n",".">>
  ELSE <<"R","a","t","e"," ","l","i","m","i","t"," ","e","x","c","e","e","d","e","d","."," ","T","h","e"," ","f","r","e","e"," ","m","o","d","e","l"," ","i","s"," ","t","e","m","p","o","r","a","r","i","l","y"," ","r","a","t","e","-","l","i","m","i","t","e","d","."," ","P","l","e","a","s","e"," ","w","a","i","t"," ","1","0","-","1","5"," ","s","e","c","o","n","d","s"," ","a","n","d"," ","t","r","y"," ","a","g","a","i","n",".">>

MsgAuth(cl) ==
  IF cl = "groq" THEN <<"A","u","t","h","e","n","t","i","c","a","t","i","o","n"," ","e","r","r","o","r","."," ","P","l","e","a","s","e"," ","c","h","e","c","k"," ","y","o","u","r"," ","G","R","O","Q","_","A","P","I","_","K","E","Y"," ","i","n"," ",".","e","n","v"," ","f","i","l","e",".">>
  ELSE <<"A","u","t","h","e","n","t","i","c","a","t","i","o","n"," ","e","r","r","o","r","."," ","P","l","e","a","s","e"," ","c","h","e","c","k"," ","y","o","u","r"," ","A","P","I"," ","k","e","y"," ","i","n"," ",".","e","n","v"," ","f","i","l","e",".">>

MsgProvider(cl) ==
  IF cl = "groq"
  THEN <<"M","o","d","e","l"," ","e","r","r","o","r","."," ","T","h","e"," ","r","e","q","u","e","s","t","e","d"," ","m","o","d","e","l"," ","m","a","y"," ","b","e"," ","u","n","a","v","a","i","l","a","b","l","e","."," ","P","l","e","a","s","e"," ","t","r","y"," ","a","g","a","i","n"," ","i","n"," ","a"," ","f","e","w"," ","m","o","m","e","n","t","s",".">>
  ELSE <<"M","o","d","e","l"," ","p","r","o","v","i","d","e","r"," ","e","r","r","o","r","."," ","T","h","e"," ","f","r","e","e"," ","m","o","d","e","l"," ","m","a","y"," ","b","e"," ","t","e","m","p","o","r","a","r","i","l","y"," ","u","n","a","v","a","i","l","a","b","l","e","."," ","P","l","e","a","s","e"," ","t","r","y"," ","a","g","a","i","n"," ","i","n"," ","a"," ","f","e","w"," ","m","o","m","e","n","t","s",".">>

\* The authentication test made in lower case, as the rate-limit test is
LooksAuthAnyCase(cl, errorMessage) ==
  IF cl = "groq"
  THEN \/ includes(toLowerCase(errorMessage), <<"a","p","i"," ","k","e","y">>)
       \/ includes(toLowerCase(errorMessage), <<"a","u","t","h">>)
       \/ includes(toLowerCase(errorMessage), <<"u","n","a","u","t","h","o","r","i","z","e","d">>)
  ELSE \/ includes(toLowerCase(errorMessage), <<"c","o","o","k","i","e">>)
       \/ includes(toLowerCase(errorMessage), <<"a","u","t","h">>)

\* else if (errorMessage?.includes(...)) of the authentication branch
LooksAuth(cl, errorMessage) ==
  IF cl = "groq"
  THEN \/ includes(errorMessage, <<"a","p","i"," ","k","e","y">>)
       \/ includes(errorMessage, <<"a","u","t","h">>)
       \/ includes(errorMessage, <<"u","n","a","u","t","h","o","r","i","z","e","d">>)
  ELSE includes(errorMessage, <<"c","o","o","k","i","e">>) \/ includes(errorMessage, <<"a","u","t","h">>)

\* else if (errorMessage?.includes(...)) of the provider / model branch
LooksProvider(cl, errorMessage) ==
  IF cl = "groq"
  THEN includes(errorMessage, <<"m","o","d","e","l">>) \/ includes(errorMessage, <<"n","o","t"," ","f","o","u","n","d">>)
  ELSE includes(errorMessage, <<"p","r","o","v","i","d","e","r">>)

\* The frames of new Error() in the catch block of the invocation at retryCount k:
\* one async frame for each invocation awaiting it
CallFrames(k) ==
  <<<<" "," "," "," ","a","t"," ","c","a","l","l","A","I","A","g","e","n","t">>, <<" "," "," "," ","a","t"," ","p","r","o","c","e","s","s",".","p","r","o","c","e","s","s","T","i","c","k","s","A","n","d","R","e","j","e","c","t","i","o","n","s">>>>
    \o [i \in 1..k |-> <<" "," "," "," ","a","t"," ","a","s","y","n","c"," ","c","a","l","l","A","I","A","g","e","n","t">>]
    \o <<<<" "," "," "," ","a","t"," ","a","s","y","n","c"," ","/","c","h","a","t">>>>

\* The enhancedError with the authentication test made before the rate-limit test
EnhancedErrorAuthFirst(cl, error, k) ==
  LET errorMessage == ErrorMessage(error)
      errorCode == ErrorCode(cl, error)
      isRateLimit == IsRateLimit(cl, error)
  IN  [t |-> "object",
       name |-> "Error",
       message |-> Str(IF LooksAuth(cl, errorMessage) THEN MsgAuth(cl)
                       ELSE IF isRateLimit
                       THEN (IF k >= MAX_RETRIES THEN MsgRetried ELSE MsgRateLimited(cl))
                       ELSE IF LooksProvider(cl, errorMessage) THEN MsgProvider(cl)
                       ELSE errorMessage),
       statusCode |-> IF LooksAuth(cl, errorMessage) THEN Num(401) ELSE errorCode,
       isRateLimit |-> [t |-> "boolean", b |-> isRateLimit],
       originalError |-> error,
       retryCount |-> Num(k),
       stack |-> Str(StackTrace(<<"E","r","r","o","r">>, CallFrames(k)))]

\* The error of a later invocation caught and wrapped again by the first one
EnhancedErrorRewrapped(cl, error, k) ==
  LET inner == [t |-> "object",
                name |-> "Error",
                message |-> Str(ErrorMessage(error)),
                statusCode |-> ErrorCode(cl, error),
                retryCount |-> Num(k)]
  IN  [t |-> "object",
       name |-> "Error",
       message |-> inner.message,
       statusCode |-> inner.statusCode,
       isRateLimit |-> [t |-> "boolean", b |-> IsRateLimit(cl, inner)],
       originalError |-> inner,
       retryCount |-> Num(0),
       stack |-> Str(StackTrace(<<"E","r","r","o","r">>, CallFrames(0)))]

\* The enhancedError thrown when the failure is not retried
EnhancedError(cl, error, k) ==
  LET errorMessage == ErrorMessage(error)
      errorCode == ErrorCode(cl, error)
      isRateLimit == IsRateLimit(cl, error)
  IN  [t |-> "object",
       name |-> "Error",
       message |-> Str(IF isRateLimit
                       THEN (IF k >= MAX_RETRIES THEN MsgRetried ELSE MsgRateLimited(cl))
                       ELSE IF LooksAuth(cl, errorMessage) THEN MsgAuth(cl)
                       ELSE IF LooksProvider(cl, errorMessage) THEN MsgProvider(cl)
                       ELSE errorMessage),
       statusCode |-> IF ~isRateLimit /\ LooksAuth(cl, errorMessage) THEN Num(401)
                      ELSE errorCode,
       isRateLimit |-> [t |-> "boolean", b |-> isRateLimit],
       originalError |-> error,
       retryCount |-> Num(k),
       stack |-> Str(StackTrace(<<"E","r","r","o","r">>, CallFrames(k)))]

-----------------------------------------------------------------------------
(* The inputs: request bodies, upstream completions, upstream failures *)

MaxHistLen == 2

HistMsgs ==
  {[role |-> "user", content |-> <<"W","h","o"," ","i","s"," ","R","a","v","i","?">>],
   [role |-> "assistant", content |-> <<"A"," ","f","a","r","m","e","r",".">>]}

RECURSIVE SeqsUpTo(_, _)
SeqsUpTo(S, n) ==
  IF n = 0 THEN {<<>>}
  ELSE LET shorter == SeqsUpTo(S, n - 1)
       IN  shorter \cup {Append(h, m) : h \in {x \in shorter : Len(x) = n - 1}, m \in S}

Histories == SeqsUpTo(HistMsgs, MaxHistLen)

Texts == {Undef, Str(<<>>), Str(<<"h","i">>)}

StepTypes ==
  {Undef, Str(<<"b","o","o","k","_","c","h","a","t">>), Str(<<"c","l","e","a","n","_","t","e","x","t">>), Str(<<"d","e","t","e","c","t","_","e","m","o","t","i","o","n">>),
   Str(<<"c","a","t","e","g","o","r","i","z","e","_","t","e","x","t">>), Str(<<"s","u","m","m","a","r","i","z","e">>), Str(<<"t","r","a","n","s","l","a","t","e">>), Str(<<"p","o","e","m">>)}

LangInputs ==
  {Str(<<>>), Str(<<"t","a">>), Str(<<" ","D","E"," ">>), Str(<<"T","a","m","i","l">>), Str(<<"\t","m","a","l","a","y","a","l","a","m","\n">>),
   Str(<<"x","x">>), Str(<<"k","l","i","n","g","o","n">>), Str(<<"c","o","n","s","t","r","u","c","t","o","r">>), Num(7)}

Body(text, language, history, stepType) ==
  [text |-> text, language |-> language, history |-> history, stepType |-> stepType]

\* req.body: every text and operation, every language form, every history
Bodies ==
  {Body(x, Undef, Undef, st) : x \in Texts, st \in StepTypes}
    \cup {Body(Str(<<"h","i">>), l, Undef, st) : l \in LangInputs, st \in {Undef, Str(<<"t","r","a","n","s","l","a","t","e">>)}}
    \cup {Body(Str(<<"h","i">>), Undef, Arr(h), st) :
            h \in Histories, st \in {Undef, Str(<<"d","e","t","e","c","t","_","e","m","o","t","i","o","n">>)}}

Seg(type, text) == [t |-> "object", type |-> Str(type), text |-> text]

\* completion.choices[0]?.message?.content of a completion the provider returns
Contents ==
  {Undef, Str(<<>>), Str(<<" "," ","\n">>), Str(<<" ","H","a","p","p","y"," ","\n">>), Str(<<"h","a","p","p","y">>),
   Str(<<"S","a","d",","," ","n","o","t"," ","H","A","P","P","Y">>), Str(<<"f","i","n","a","n","c","e"," ","&"," ","m","o","n","e","y">>), Str(<<"W","o","r","k"," "," ","&"," "," ","C","a","r","e","e","r">>),
   Arr(<<>>),
   Arr(<<Seg(<<"i","m","a","g","e","_","u","r","l">>, Undef)>>),
   Arr(<<Seg(<<"t","e","x","t">>, Str(<<"I"," ","a","m"," ">>)), Seg(<<"i","m","a","g","e","_","u","r","l">>, Undef), Seg(<<"t","e","x","t">>, Str(<<"s","a","d"," ">>))>>),
   Arr(<<Seg(<<"t","e","x","t">>, Undef)>>)}

Err(fields) == [t |-> "object", name |-> "Error"] @@ fields

FailureMessages ==
  {<<"R","a","t","e"," ","l","i","m","i","t"," ","e","x","c","e","e","d","e","d">>, <<"T","o","o"," ","m","a","n","y"," ","r","e","q","u","e","s","t","s",","," ","u","s","a","g","e"," ","L","I","M","I","T"," ","r","e","a","c","h","e","d">>,
   <<"Q","u","o","t","a"," ","e","x","c","e","e","d","e","d">>, <<"u","n","a","u","t","h","o","r","i","z","e","d">>, <<"A","u","t","h","e","n","t","i","c","a","t","i","o","n"," ","f","a","i","l","e","d">>,
   <<"i","n","v","a","l","i","d"," ","a","p","i"," ","k","e","y">>, <<"c","o","o","k","i","e"," ","e","x","p","i","r","e","d">>, <<"l","i","m","i","t"," ","r","e","a","c","h","e","d",":"," ","u","n","a","u","t","h","o","r","i","z","e","d">>,
   <<"p","r","o","v","i","d","e","r"," ","r","e","t","u","r","n","e","d"," ","e","r","r","o","r">>, <<"m","o","d","e","l"," ","n","o","t"," ","f","o","u","n","d">>, <<"s","o","c","k","e","t"," ","h","a","n","g"," ","u","p">>}

\* What the provider call throws
Failures ==
  \* a message, with or without a status
  {Err([message |-> Str(m), status |-> st]) :
     m \in FailureMessages, st \in {Undef, Num(429), Num(503)}}
  \* no message of its own: a nested error object, a body, a response
  \cup {Err([error |-> [t |-> "object", message |-> Str(<<"R","a","t","e"," ","l","i","m","i","t"," ","e","x","c","e","e","d","e","d">>), code |-> c]]) :
          c \in {Undef, Num(429), Str(<<"r","a","t","e","_","l","i","m","i","t","_","e","x","c","e","e","d","e","d">>)}}
  \cup {Err([message |-> Str(<<"s","o","c","k","e","t"," ","h","a","n","g"," ","u","p">>), body |-> b]) :
          b \in {Str(<<"R","a","t","e"," ","l","i","m","i","t","e","d">>), Str(<<"u","s","a","g","e"," ","l","i","m","i","t"," ","r","e","a","c","h","e","d">>), Str(<<"Q","U","O","T","A"," ","u","s","e","d"," ","u","p">>),
                 [t |-> "object", message |-> Str(<<"r","a","t","e"," ","l","i","m","i","t">>)]}}
  \cup {Err([message |-> Str(<<"s","o","c","k","e","t"," ","h","a","n","g"," ","u","p">>),
             response |-> [t |-> "object", status |-> Num(429), data |-> Str(<<"s","l","o","w"," ","d","o","w","n">>)]]),
        Err([message |-> Str(<<"s","o","c","k","e","t"," ","h","a","n","g"," ","u","p">>),
             response |-> [t |-> "object", status |-> Undef, data |-> Str(<<"r","a","t","e"," ","l","i","m","i","t","e","d">>)]]),
        Err([message |-> Str(<<"s","o","c","k","e","t"," ","h","a","n","g"," ","u","p">>), statusCode |-> Num(502)]),
        Err([message |-> Str(<<"s","o","c","k","e","t"," ","h","a","n","g"," ","u","p">>), code |-> Num(504)]),
        Err([message |-> Str(<<"s","o","c","k","e","t"," ","h","a","n","g"," ","u","p">>), code |-> Str(<<"E","C","O","N","N","R","E","S","E","T">>)]),
        Err([message |-> Str(<<"s","o","c","k","e","t"," ","h","a","n","g"," ","u","p">>),
             error |-> [t |-> "object", code |-> Str(<<"m","o","d","e","l","_","d","e","c","o","m","m","i","s","s","i","o","n","e","d">>)]]),
        Err([error |-> Str(<<"r","a","t","e"," ","l","i","m","i","t">>)])}
  \* a thrown string
  \cup {Str(<<"r","a","t","e"," ","l","i","m","i","t"," ","r","e","a","c","h","e","d">>), Str(<<"b","o","o","m">>)}

Chunk(language, text) == [language |-> language, text |-> text]

\* data/chunks.json as loaded at start: absent, or a small book
ChunkTables ==
  {<<>>,
   <<Chunk(<<"e","n","g","l","i","s","h">>, <<"R","a","v","i"," ","i","s"," ","a"," ","f","a","r","m","e","r",".">>), Chunk(<<"T","a","m","i","l">>, <<"R","a","v","i"," ","o","r","u"," ","v","i","v","a","s","a","y","i",".">>),
     Chunk(<<"e","n","g","l","i","s","h">>, <<"S","e","e"," ","h","t","t","p","s",":","/","/","e","x","a","m","p","l","e",".","c","o","m">>)>>}

\* server.js imports getBookChatbotPrompt, which only the OpenRouter aiService.js exports
Deployments ==
  {[server |-> "book_chatbot", client |-> "openrouter", chunks |-> c] : c \in ChunkTables}
    \cup {[server |-> "workflow", client |-> cl, chunks |-> <<>>] : cl \in {"openrouter", "groq"}}

Nothing == [t |-> "undefined"]

-----------------------------------------------------------------------------
(* Concurrent requests: the parameters and locals of each callAIAgent invocation *)

NumRequests == 2

Requests == 1..NumRequests

\* callAIAgent(text, language, history) as the handler calls it: retryCount = 0
NewCall ==
  [pc |-> "calling", retryCount |-> 0, sent |-> 0, sleeps |-> <<>>, outcomes |-> <<>>,
   result |-> [t |-> "undefined"]]

-----------------------------------------------------------------------------
(* The handler of POST /chat, one request *)

Init ==
  /\ \E d \in Deployments :
       /\ server = d.server
       /\ client = d.client
       /\ allChunks = d.chunks
  /\ production \in BOOLEAN
  /\ pc = "idle"
  /\ req = Nothing
  /\ normalizedLang = Nothing
  /\ callText = Nothing
  /\ callHistory = <<>>
  /\ retryCount = 0
  /\ sent = <<>>
  /\ sleeps = <<>>
  /\ attempts = <<>>
  /\ upstream = Nothing
  /\ result = Nothing
  /\ res = <<>>
  /\ stages = <<>>
  /\ calls = [r \in Requests |-> NewCall]

\* express.json() has parsed the body; the handler is entered
Request(body) ==
  /\ pc = "idle"
  /\ req' = body
  /\ pc' = "received"
  /\ stages' = Append(stages, "received")
  /\ UNCHANGED <<calls, server, client, production, allChunks, normalizedLang, callText, callHistory,
                 retryCount, sent, sleeps, attempts, upstream, result, res>>

BadRequest(msg) == [status |-> Num(400), body |-> [error |-> Str(msg), success |-> FALSE]]

\* The two checks in the other order: stepType before text
ValidateStepTypeFirst ==
  /\ pc = "received"
  /\ IF server = "workflow" /\ ~Truthy(req.stepType)
     THEN /\ res' = Append(res, BadRequest(<<"s","t","e","p","T","y","p","e"," ","i","s"," ","r","e","q","u","i","r","e","d">>))
          /\ pc' = "done"
     ELSE IF ~Truthy(req.text)
     THEN /\ res' = Append(res, BadRequest(<<"T","e","x","t"," ","i","s"," ","r","e","q","u","i","r","e","d">>))
          /\ pc' = "done"
     ELSE /\ res' = res
          /\ pc' = "validated"
  /\ UNCHANGED <<calls, server, client, production, allChunks, req, normalizedLang, callText,
                 callHistory, retryCount, sent, sleeps, attempts, upstream, result, stages>>

\* if (!text) ...; if (!stepType) ... (the latter in the workflow-only handler)
Validate ==
  /\ pc = "received"
  /\ IF ~Truthy(req.text)
     THEN /\ res' = Append(res, BadRequest(<<"T","e","x","t"," ","i","s"," ","r","e","q","u","i","r","e","d">>))
          /\ pc' = "done"
     ELSE IF server = "workflow" /\ ~Truthy(req.stepType)
     THEN /\ res' = Append(res, BadRequest(<<"s","t","e","p","T","y","p","e"," ","i","s"," ","r","e","q","u","i","r","e","d">>))
          /\ pc' = "done"
     ELSE /\ res' = res
          /\ pc' = "validated"
  /\ UNCHANGED <<calls, server, client, production, allChunks, req, normalizedLang, callText,
                 callHistory, retryCount, sent, sleeps, attempts, upstream, result, stages>>

\* const { language = 'en' } = req.body; const normalizedLang = normalizeLanguage(language)
NormalizeLang ==
  /\ pc = "validated"
  /\ LET language == IF req.language = Undef THEN Str(<<"e","n">>) ELSE req.language
         n == normalizeLanguage(language)
     IN  IF n.ok
         THEN /\ normalizedLang' = n.v
              /\ pc' = "normalized"
              /\ result' = result
              /\ stages' = Append(stages, "language_normalized")
         ELSE /\ normalizedLang' = normalizedLang
              /\ pc' = "caught"
              /\ result' = n.e
              /\ stages' = stages
  /\ UNCHANGED <<calls, server, client, production, allChunks, req, callText, callHistory,
                 retryCount, sent, sleeps, attempts, upstream, res>>

\* const { history = [] } = req.body
HistoryOf(body) == IF body.history = Undef THEN <<>> ELSE body.history.a

\* The book branch (server.js) or processStepWithAI, up to the call of callAIAgent
BuildPrompt ==
  /\ pc = "normalized"
  /\ IF server = "book_chatbot" /\ isBookChatbotRequest(req.stepType)
     THEN LET bookContent == getBookContent(allChunks, normalizedLang)
          IN  IF bookContent.ok
              THEN /\ callText' = getBookChatbotPrompt(bookContent.v, req.text,
                                                       normalizedLang, HistoryOf(req))
                   /\ callHistory' = <<>>
                   /\ pc' = "calling"
                   /\ result' = result
                   /\ stages' = Append(stages, "prompt_built")
              ELSE /\ pc' = "caught"
                   /\ result' = bookContent.e
                   /\ UNCHANGED <<callText, callHistory, stages>>
     ELSE /\ callText' = StepPrompt(req.stepType, req.text, normalizedLang)
          /\ callHistory' = HistoryOf(req)
          /\ pc' = "calling"
          /\ result' = result
          /\ stages' = Append(stages, "prompt_built")
  /\ retryCount' = 0
  /\ UNCHANGED <<calls, server, client, production, allChunks, req, normalizedLang, sent, sleeps,
                 attempts, upstream, res>>

\* callAIAgent's try block up to the await: the provider is called
Send ==
  /\ pc = "calling"
  /\ sent' = Append(sent, Messages(callText, callHistory))
  /\ pc' = "awaiting"
  /\ stages' = IF retryCount = 0 THEN Append(stages, "completion_requested") ELSE stages
  /\ UNCHANGED <<calls, server, client, production, allChunks, req, normalizedLang, callText,
                 callHistory, retryCount, result, res, sleeps, attempts, upstream>>

\* callAIAgent's catch block
Catch(error) ==
  /\ attempts' = Append(attempts, IF IsRateLimit(client, error) THEN "rate_limited"
                                  ELSE "failed")
  /\ IF ShouldRetry(client, error, retryCount)
     THEN /\ sleeps' = Append(sleeps, BackoffDelay(retryCount))
          /\ pc' = "sleeping"
          /\ result' = result
     ELSE /\ sleeps' = sleeps
          /\ pc' = "caught"
          /\ result' = EnhancedError(client, error, retryCount)

\* The provider returns a completion
UpstreamSuccess(content) ==
  /\ pc = "awaiting"
  /\ upstream' = [ok |-> TRUE, content |-> content]
  /\ LET x == Extract(client, content)
     IN  IF x.ok
         THEN /\ result' = Str(x.v)
              /\ attempts' = Append(attempts, "success")
              /\ pc' = "returned"
              /\ sleeps' = sleeps
         ELSE Catch(NoResponse)
  /\ UNCHANGED <<calls, server, client, production, allChunks, req, normalizedLang, callText,
                 callHistory, retryCount, sent, res, stages>>

\* The provider call throws
UpstreamFail(error) ==
  /\ pc = "awaiting"
  /\ upstream' = [ok |-> FALSE]
  /\ Catch(error)
  /\ UNCHANGED <<calls, server, client, production, allChunks, req, normalizedLang, callText,
                 callHistory, retryCount, sent, res, stages>>

\* await sleep(delay) is over: return await callAIAgent(text, language, history, retryCount + 1)
Wake ==
  /\ pc = "sleeping"
  /\ retryCount' = retryCount + 1
  /\ pc' = "calling"
  /\ UNCHANGED <<calls, server, client, production, allChunks, req, normalizedLang, callText,
                 callHistory, sent, sleeps, attempts, upstream, result, res, stages>>

Model == <<"q","w","e","n","/","q","w","e","n","3","-","c","o","d","e","r",":","f","r","e","e">>

\* The success body of the book branch and of the workflow branch
SuccessBody(response) ==
  IF server = "book_chatbot" /\ isBookChatbotRequest(req.stepType)
  THEN [success |-> TRUE, question |-> req.text, language |-> normalizedLang,
        answer |-> response, model |-> Model, type |-> "book_chatbot"]
  ELSE [success |-> TRUE, response |-> response, model |-> Model, stepType |-> req.stepType,
        language |-> normalizedLang, type |-> "workflow"]

\* Whether the handler formats the completion (the workflow branch only)
Formats ==
  /\ ~(server = "book_chatbot" /\ isBookChatbotRequest(req.stepType))
  /\ req.stepType \in {Str(<<"d","e","t","e","c","t","_","e","m","o","t","i","o","n">>), Str(<<"c","a","t","e","g","o","r","i","z","e","_","t","e","x","t">>)}

Formatted(response) ==
  IF ~Formats THEN response
  ELSE IF req.stepType = Str(<<"d","e","t","e","c","t","_","e","m","o","t","i","o","n">>) THEN Str(formatEmotionResult(response.s))
  ELSE Str(formatCategoryResult(response.s))

\* callAIAgent has returned: format, res.json(...)
Respond ==
  /\ pc = "returned"
  /\ res' = Append(res, [status |-> Num(200), body |-> SuccessBody(Formatted(result))])
  /\ stages' = stages \o (IF Formats THEN <<"response_normalized">> ELSE <<>>)
                      \o <<"json_emitted">>
  /\ pc' = "done"
  /\ UNCHANGED <<calls, server, client, production, allChunks, req, normalizedLang, callText,
                 callHistory, retryCount, sent, sleeps, attempts, upstream, result>>

MsgServerRateLimit ==
  <<"R","a","t","e"," ","l","i","m","i","t"," ","e","x","c","e","e","d","e","d","."," ","P","l","e","a","s","e"," ","w","a","i","t"," ","1","0","-","1","5"," ","s","e","c","o","n","d","s"," ","a","n","d"," ","t","r","y"," ","a","g","a","i","n","."," ","T","h","e"," ","f","r","e","e"," ","m","o","d","e","l"," ","h","a","s"," ","u","s","a","g","e"," ","l","i","m","i","t","s",".">>

\* const statusCode = error.statusCode || error.status || 500
StatusOf(error) ==
  OrElse(Get(error, "statusCode"), OrElse(Get(error, "status"), Num(500)))

\* The errorResponse with the details added whatever NODE_ENV is
ErrorResponseAlwaysDetailed(error) ==
  LET statusCode == StatusOf(error)
      errorMessage ==
        IF Truthy(Get(error, "isRateLimit")) \/ statusCode = Num(429)
        THEN Str(MsgServerRateLimit)
        ELSE OrElse(Get(error, "message"), Str(<<"I","n","t","e","r","n","a","l"," ","s","e","r","v","e","r"," ","e","r","r","o","r">>))
      base == [error |-> errorMessage, statusCode |-> statusCode]
      original == IF Truthy(Get(error, "originalError"))
                     /\ Get(error.originalError, "message") # Undef
                  THEN [originalError |-> Get(error.originalError, "message")]
                  ELSE <<>>
      stack == IF Truthy(Get(error, "stack"))
               THEN [stack |-> Str(join(slice(split(error.stack.s, "\n"), 0, 3), <<"\n">>))]
               ELSE <<>>
  IN  [status |-> statusCode, body |-> base @@ original @@ stack]

\* The errorResponse of the handler's catch block, as res.json writes it: a field
\* whose value is undefined is left out by JSON.stringify
ErrorResponse(error) ==
  LET statusCode == StatusOf(error)
      errorMessage ==
        IF Truthy(Get(error, "isRateLimit")) \/ statusCode = Num(429)
        THEN Str(MsgServerRateLimit)
        ELSE OrElse(Get(error, "message"), Str(<<"I","n","t","e","r","n","a","l"," ","s","e","r","v","e","r"," ","e","r","r","o","r">>))
      base == [error |-> errorMessage, statusCode |-> statusCode]
      original == IF ~production /\ Truthy(Get(error, "originalError"))
                     /\ Get(error.originalError, "message") # Undef
                  THEN [originalError |-> Get(error.originalError, "message")]
                  ELSE <<>>
      stack == IF ~production /\ Truthy(Get(error, "stack"))
               THEN [stack |-> Str(join(slice(split(error.stack.s, "\n"), 0, 3), <<"\n">>))]
               ELSE <<>>
  IN  [status |-> statusCode, body |-> base @@ original @@ stack]

\* res.status(code) followed by json(): the status line needs an integer of 100..999
ValidStatus(code) == code.t = "number" /\ code.n >= 100 /\ code.n <= 999

\* res.status(code).json(...) throws inside the catch block for any other code, and the
\* handler's promise rejects: the framework either leaves the request unanswered
\* (Express 4) or answers it from its default error handler (Express 5)
FrameworkError == [status |-> Num(500), body |-> [html |-> TRUE]]

\* The handler's catch block
HandleError ==
  /\ pc = "caught"
  /\ LET r == ErrorResponse(result)
     IN  IF ValidStatus(r.status)
         THEN /\ res' = Append(res, r)
              /\ pc' = "done"
              /\ stages' = Append(stages, "json_emitted")
         ELSE /\ res' \in {res, Append(res, FrameworkError)}
              /\ pc' = "thrown"
              /\ stages' = stages
  /\ UNCHANGED <<calls, server, client, production, allChunks, req, normalizedLang, callText,
                 callHistory, retryCount, sent, sleeps, attempts, upstream, result>>

Next ==
  \/ \E body \in Bodies : Request(body)
  \/ Validate
  \/ NormalizeLang
  \/ BuildPrompt
  \/ Send
  \/ \E content \in Contents : UpstreamSuccess(content)
  \/ \E error \in Failures : UpstreamFail(error)
  \/ Wake
  \/ Respond
  \/ HandleError

Spec == Init /\ [][Next]_vars

\* What the provider does in the runs of SpecLive: each class of outcome
LiveContents == {Str(<<" ","H","a","p","p","y"," ","\n">>), Str(<<"f","i","n","a","n","c","e"," ","&"," ","m","o","n","e","y">>)}

LiveFailures ==
  {Err([message |-> Str(<<"l","i","m","i","t">>), status |-> Undef]),
   Err([message |-> Str(<<"a","u","t","h">>), status |-> Num(503)]),
   Err([message |-> Str(<<"d","o","w","n">>), statusCode |-> Num(502)])}

\* The provider answers or throws
Upstream ==
  \/ \E content \in LiveContents : UpstreamSuccess(content)
  \/ \E error \in LiveFailures : UpstreamFail(error)

\* callAIAgent as the handler has just called it for {text: 'hi', stepType: 'summarize'}
InitCalled ==
  /\ \E d \in Deployments :
       /\ server = d.server
       /\ client = d.client
       /\ allChunks = d.chunks
  /\ production \in BOOLEAN
  /\ pc = "calling"
  /\ req = Body(Str(<<"h","i">>), Undef, Undef, Str(<<"s","u","m","m","a","r","i","z","e">>))
  /\ normalizedLang = Str(<<"e","n">>)
  /\ callText = StepPrompt(Str(<<"s","u","m","m","a","r","i","z","e">>), Str(<<"h","i">>), Str(<<"e","n">>))
  /\ callHistory = <<>>
  /\ retryCount = 0
  /\ sent = <<>>
  /\ sleeps = <<>>
  /\ attempts = <<>>
  /\ upstream = Nothing
  /\ result = Nothing
  /\ res = <<>>
  /\ stages = <<"received", "language_normalized", "prompt_built">>
  /\ calls = [r \in Requests |-> NewCall]

\* The steps of callAIAgent
NextCall ==
  \/ Send
  \/ Upstream
  \/ Wake

\* One call of callAIAgent in which every provider call returns and every timer fires
SpecLive ==
  /\ InitCalled
  /\ [][NextCall]_vars
  /\ WF_vars(Send)
  /\ WF_vars(Upstream)
  /\ WF_vars(Wake)

-----------------------------------------------------------------------------
(* Requests handled concurrently.  The handlers interleave at their awaits:     *)
(* the provider call, the sleep.  aiService.js keeps no variable outside        *)
(* callAIAgent but the provider client and the constant tables.                 *)

single ==
  <<server, client, production, allChunks, pc, req, normalizedLang, callText, callHistory,
    retryCount, sent, sleeps, attempts, upstream, result, res, stages>>

\* What the provider does to the concurrent requests
ConcurrentContents == {Undef, Str(<<" ","H","a","p","p","y"," ","\n">>)}

ConcurrentFailures ==
  {Err([message |-> Str(<<"R","a","t","e"," ","l","i","m","i","t"," ","e","x","c","e","e","d","e","d">>), status |-> Undef]),
   Err([message |-> Str(<<"s","o","c","k","e","t"," ","h","a","n","g"," ","u","p">>), status |-> Num(429)]),
   Err([message |-> Str(<<"s","o","c","k","e","t"," ","h","a","n","g"," ","u","p">>), statusCode |-> Num(502)])}

\* The try block up to the await, in the invocation of request r
CallSend(r) ==
  /\ calls[r].pc = "calling"
  /\ calls' = [calls EXCEPT ![r] = [@ EXCEPT !.sent = @ + 1, !.pc = "awaiting"]]
  /\ UNCHANGED single

\* The catch block, on the locals c of one invocation
CallCatch(c, error) ==
  LET outcome == IF IsRateLimit(client, error) THEN "rate_limited" ELSE "failed"
  IN  IF ShouldRetry(client, error, c.retryCount)
      THEN [c EXCEPT !.outcomes = Append(@, outcome),
                     !.sleeps = Append(@, BackoffDelay(c.retryCount)),
                     !.pc = "sleeping"]
      ELSE [c EXCEPT !.outcomes = Append(@, outcome),
                     !.result = EnhancedError(client, error, c.retryCount),
                     !.pc = "raised"]

\* The provider returns a completion to request r
CallSuccess(r, content) ==
  /\ calls[r].pc = "awaiting"
  /\ LET x == Extract(client, content)
     IN  calls' = [calls EXCEPT ![r] =
                     IF x.ok
                     THEN [@ EXCEPT !.outcomes = Append(@, "success"),
                                    !.result = Str(x.v),
                                    !.pc = "returned"]
                     ELSE CallCatch(@, x.e)]
  /\ UNCHANGED single

\* The provider call of request r throws
CallFail(r, error) ==
  /\ calls[r].pc = "awaiting"
  /\ calls' = [calls EXCEPT ![r] = CallCatch(@, error)]
  /\ UNCHANGED single

\* A retry counter kept outside the function: one count for all requests
WokenShared(cs, r) ==
  [q \in DOMAIN cs |->
     [cs[q] EXCEPT !.retryCount = @ + 1, !.pc = IF q = r THEN "calling" ELSE @]]

\* return await callAIAgent(text, language, history, retryCount + 1)
Woken(cs, r) == [cs EXCEPT ![r] = [@ EXCEPT !.retryCount = @ + 1, !.pc = "calling"]]

\* The sleep of request r is over
CallWake(r) ==
  /\ calls[r].pc = "sleeping"
  /\ calls' = Woken(calls, r)
  /\ UNCHANGED single

NextConcurrent ==
  \/ \E r \in Requests : CallSend(r)
  \/ \E r \in Requests, content \in ConcurrentContents : CallSuccess(r, content)
  \/ \E r \in Requests, error \in ConcurrentFailures : CallFail(r, error)
  \/ \E r \in Requests : CallWake(r)

SpecConcurrent == Init /\ [][NextConcurrent]_vars

-----------------------------------------------------------------------------
(* Properties *)

Last(q) == q[Len(q)]

\* callAIAgent has raised to the handler (the handler may have answered since)
Raised == attempts # <<>> /\ pc \in {"caught", "done", "thrown"} /\ Last(attempts) # "success"

\* callAIAgent has returned to the handler
Returned == attempts # <<>> /\ pc \in {"returned", "done"} /\ Last(attempts) = "success"

AllRateLimited == attempts # <<>> /\ \A i \in 1..Len(attempts) : attempts[i] = "rate_limited"

\* C1: when every upstream call of a request fails rate-limited, the client makes
\* exactly 4 upstream calls (never a 5th), raises only after the 4th has failed, and the
\* error raised says 'Retried 3 times' with isRateLimit = true and retryCount = 3.
C1_Exhaustion ==
  AllRateLimited =>
    /\ Len(sent) <= 4
    /\ Len(attempts) = 4 => Raised
    /\ Raised =>
         /\ Len(sent) = 4
         /\ Len(attempts) = 4
         /\ includes(result.message.s, <<"R","e","t","r","i","e","d"," ","3"," ","t","i","m","e","s">>)
         /\ result.isRateLimit = [t |-> "boolean", b |-> TRUE]
         /\ result.retryCount = Num(3)

C1_Witness == AllRateLimited /\ pc = "caught" /\ Len(sent) = 4

\* C2: when the first 2 attempts fail rate-limited and the 3rd succeeds, callAIAgent
\* returns the 3rd completion's trimmed text instead of raising, after exactly 2
\* retries and sleeps of 2000 ms then 4000 ms (6000 ms in total).
C2_RetryThenSuccess ==
  attempts = <<"rate_limited", "rate_limited", "success">> =>
    /\ Returned
    /\ result.t = "string"
    /\ upstream.content.t = "string" => result.s = trim(upstream.content.s)
    /\ retryCount = 2
    /\ Len(sent) = 3
    /\ sleeps = <<2000, 4000>>
    /\ sleeps[1] + sleeps[2] = 6000

C2_Witness ==
  /\ attempts = <<"rate_limited", "rate_limited", "success">>
  /\ pc = "returned"
  /\ upstream.content = Str(<<" ","H","a","p","p","y"," ","\n">>)
  /\ result = Str(<<"H","a","p","p","y">>)

\* C3: an attempt whose failure is not classified rate-limited, at any retryCount, is
\* the last one: no further upstream call, no sleep, the error is raised at once; an
\* absent completion content ('No response from AI agent') is such a failure.
C3_OnlyRateLimitRetried ==
  /\ \A i \in 1..Len(attempts) : attempts[i] = "failed" =>
       /\ i = Len(attempts)
       /\ pc \in {"caught", "done", "thrown"}
       /\ Len(sent) = i
       /\ Len(sleeps) = i - 1
  /\ (upstream # Nothing /\ upstream.ok /\ ~Truthy(upstream.content)) =>
       /\ Last(attempts) = "failed"
       /\ pc \in {"caught", "done", "thrown"}
       /\ result.originalError = NoResponse
       /\ result.message = Str(<<"N","o"," ","r","e","s","p","o","n","s","e"," ","f","r","o","m"," ","A","I"," ","a","g","e","n","t">>)

C3_Witness ==
  /\ pc = "caught"
  /\ attempts = <<"rate_limited", "rate_limited", "failed">>
  /\ result.originalError = NoResponse
  /\ Len(sent) = 3
  /\ Len(sleeps) = 2

\* C4: every value callAIAgent returns is a non-empty text; a missing, empty or
\* whitespace-only content, an empty segment list and a segment list without a
\* text-typed segment all end in a failure, never in a returned ''.
C4_NeverEmptyAccepted ==
  /\ Returned => result.t = "string" /\ result.s # <<>>
  /\ (upstream # Nothing /\ upstream.ok /\ pc # "awaiting"
        /\ \/ ~Truthy(upstream.content)
           \/ upstream.content.t = "string" /\ trim(upstream.content.s) = <<>>
           \/ upstream.content.t = "array" /\ TextParts(upstream.content.a) = <<>>)
       => ~Returned

\* C5: a request whose upstream failures are all classified rate-limited, by status
\* 429 or only by the words of the message or body, and whose 3 retries are exhausted,
\* is answered with HTTP status 429 and statusCode 429 in the body.
C5_ExhaustedIs429 ==
  (AllRateLimited /\ Len(attempts) = 4 /\ pc \in {"done", "thrown"}) =>
    /\ Len(res) = 1
    /\ res[1].status = Num(429)
    /\ "statusCode" \in DOMAIN res[1].body
    /\ res[1].body.statusCode = Num(429)

\* The words the claim lists as making a message look like an authentication problem
C6_ClaimedAuthWords == {<<"a","u","t","h">>, <<"c","o","o","k","i","e">>, <<"a","p","i"," ","k","e","y">>, <<"u","n","a","u","t","h","o","r","i","z","e","d">>}

\* The words each client's authentication branch looks for
C6_AuthWords ==
  IF client = "groq" THEN {<<"a","p","i"," ","k","e","y">>, <<"a","u","t","h">>, <<"u","n","a","u","t","h","o","r","i","z","e","d">>}
  ELSE {<<"c","o","o","k","i","e">>, <<"a","u","t","h">>}

C6_AuthMessages ==
  {<<"A","u","t","h","e","n","t","i","c","a","t","i","o","n"," ","e","r","r","o","r","."," ","P","l","e","a","s","e"," ","c","h","e","c","k"," ","y","o","u","r"," ","A","P","I"," ","k","e","y"," ","i","n"," ",".","e","n","v"," ","f","i","l","e",".">>,
   <<"A","u","t","h","e","n","t","i","c","a","t","i","o","n"," ","e","r","r","o","r","."," ","P","l","e","a","s","e"," ","c","h","e","c","k"," ","y","o","u","r"," ","G","R","O","Q","_","A","P","I","_","K","E","Y"," ","i","n"," ",".","e","n","v"," ","f","i","l","e",".">>}

\* C6 as stated: every raised statusCode is the extracted status code, except that a
\* message containing 'auth', 'cookie', 'api key' or 'unauthorized' is raised with 401
\* and an authentication message, and such a failure is never retried.
C6_AsStated ==
  (Raised /\ pc = "caught") =>
    LET error == result.originalError
        auth == \E w \in C6_ClaimedAuthWords : includes(ErrorMessage(error), w)
    IN  IF auth
        THEN /\ result.statusCode = Num(401)
             /\ result.message.s \in C6_AuthMessages
             /\ Last(attempts) = "failed"
        ELSE result.statusCode = ErrorCode(client, error)

\* C6, amended: every raised statusCode is the extracted status code, except that a
\* failure not classified rate-limited whose message contains, in that letter case,
\* 'auth' or 'cookie' (OpenRouter client), or 'api key', 'auth' or 'unauthorized' (Groq
\* client), is raised with 401 and the authentication message; it is never retried.
C6_StatusPreserved ==
  (Raised /\ pc = "caught") =>
    LET error == result.originalError
        auth == /\ Last(attempts) = "failed"
                /\ \E w \in C6_AuthWords : includes(ErrorMessage(error), w)
    IN  IF auth
        THEN /\ result.statusCode = Num(401)
             /\ result.message.s \in C6_AuthMessages
             /\ Len(sleeps) = Len(attempts) - 1
        ELSE result.statusCode = ErrorCode(client, error)

C6_Witness ==
  /\ pc = "caught"
  /\ Raised
  /\ result.statusCode = Num(401)
  /\ ErrorCode(client, result.originalError) = Num(503)
  /\ ErrorMessage(result.originalError) = <<"u","n","a","u","t","h","o","r","i","z","e","d">>

C7_NoWork == normalizedLang = Nothing /\ callText = Nothing /\ sent = <<>> /\ stages = <<"received">>

C8_Pipeline ==
  <<"received", "language_normalized", "prompt_built", "completion_requested",
    "response_normalized", "json_emitted">>

\* C8: each request runs one pass through the stages in their order and reaches
\* exactly one terminal state with exactly one HTTP response: 200 with success = true,
\* 400 for a missing field, or a failure whose status is the raised error's statusCode
\* (500 when it carries none); nothing is emitted twice or runs after the response.
C8_OneResponse ==
  /\ Len(res) <= 1
  /\ \A i, j \in 1..Len(stages) :
       i < j => \E a, b \in 1..Len(C8_Pipeline) :
                  a < b /\ C8_Pipeline[a] = stages[i] /\ C8_Pipeline[b] = stages[j]
  /\ pc \in {"done", "thrown"} =>
       /\ Len(res) = 1
       /\ \/ res[1].status = Num(200) /\ res[1].body.success = TRUE
          \/ res[1].status = Num(400) /\ res[1].body.success = FALSE
          \/ res[1].status = OrElse(Get(result, "statusCode"), Num(500))

\* Whether the request takes the book branch of server.js
C9_BookBranch ==
  server = "book_chatbot" /\ (~Truthy(req.stepType) \/ req.stepType = Str(<<"b","o","o","k","_","c","h","a","t">>))

RECURSIVE C9_Lines(_)
C9_Lines(h) ==
  IF h = <<>> THEN <<>>
  ELSE (IF h[1].role = "user" THEN <<"U","s","e","r",":"," ">> ELSE <<"A","s","s","i","s","t","a","n","t",":"," ">>)
         \o h[1].content \o <<"\n">> \o C9_Lines(Tail(h))

\* C9 as stated: every outgoing message list, of the first attempt and of every retry,
\* is the caller's history in its order followed by one user turn holding the prompt.
C9_AsStated ==
  (pc \notin {"idle", "received"}) =>
    \A i \in 1..Len(sent) :
      sent[i] = HistoryOf(req) \o <<[role |-> "user", content |-> callText]>>

C9_Outgoing ==
  (pc \notin {"idle", "received"}) =>
    /\ \A i \in 1..Len(sent) :
         sent[i] = (IF C9_BookBranch THEN <<>> ELSE HistoryOf(req))
                     \o <<[role |-> "user", content |-> callText]>>
    /\ (C9_BookBranch /\ callText # Nothing) =>
         callText.chatHistory =
           (IF HistoryOf(req) = <<>> THEN <<>>
            ELSE <<"\n","P","R","E","V","I","O","U","S"," ","C","O","N","V","E","R","S","A","T","I","O","N",":","\n">> \o C9_Lines(HistoryOf(req)))

\* C9, amended: in the workflow branch every outgoing message list, of the first
\* attempt and of every retry, is the caller's history in its order with role and
\* content unchanged, followed by one user turn holding the prompt; in the book branch
\* of server.js it is that user turn alone, and the history reaches the provider as
\* the 'User:' / 'Assistant:' lines of the prompt, in its order; the caller's history
\* is never changed.
C9_HistoryOrder == [](C9_Outgoing) /\ [][pc # "idle" => req' = req]_vars

C9_Witness ==
  /\ pc = "awaiting"
  /\ ~C9_BookBranch
  /\ Len(HistoryOf(req)) = 2
  /\ HistoryOf(req)[1] # HistoryOf(req)[2]
  /\ Len(sent) = 2
  /\ sent[2] = sent[1]
  /\ Len(sent[2]) = 3

\* C10: normalizeLanguage always yields a member of the closed code set: the canonical
\* code for a recognized code or name in any letter case and with any surrounding
\* whitespace, 'en' for every other text; the raw input reaches neither the prompt,
\* the completion call nor the response.
C10_ClosedCodeSet ==
  (normalizedLang # Nothing /\ req.language # Undef /\ req.language.t = "string") =>
    LET raw == trim(toLowerCase(req.language.s))
    IN  /\ normalizedLang.t = "string"
        /\ normalizedLang.s \in LanguageCodes
        /\ normalizedLang.s =
             (IF raw \in LanguageCodes THEN raw
              ELSE IF raw \in DOMAIN LANGUAGE_NAME_TO_CODE THEN LANGUAGE_NAME_TO_CODE[raw]
              ELSE <<"e","n">>)
        /\ (pc = "done" /\ res[1].status = Num(200)) => res[1].body.language = normalizedLang

\* A successful answer of the workflow branch for the step type st
WorkflowAnswer(st) ==
  /\ pc = "done"
  /\ Returned
  /\ req.stepType = Str(st)
  /\ res[1].status = Num(200)

C11_Labels == {<<"S","t","r","e","s","s","e","d">>, <<"H","a","p","p","y">>, <<"S","a","d">>, <<"A","n","g","r","y">>, <<"N","e","u","t","r","a","l">>}

\* C11: formatEmotionResult returns exactly one of Stressed, Happy, Sad, Angry, Neutral:
\* the first of stressed, happy, sad, angry, neutral, in that order, that is a substring
\* of the lower-cased completion text, capitalized, and Neutral when none is; every
\* successful detect_emotion answer has such a response field, 'happy' giving 'Happy'.
C11_EmotionSnapping ==
  WorkflowAnswer(<<"d","e","t","e","c","t","_","e","m","o","t","i","o","n">>) =>
    LET low == toLowerCase(result.s)
        response == res[1].body.response
    IN  /\ response.t = "string"
        /\ response.s \in C11_Labels
        /\ response.s =
             (IF includes(low, <<"s","t","r","e","s","s","e","d">>) THEN <<"S","t","r","e","s","s","e","d">>
              ELSE IF includes(low, <<"h","a","p","p","y">>) THEN <<"H","a","p","p","y">>
              ELSE IF includes(low, <<"s","a","d">>) THEN <<"S","a","d">>
              ELSE IF includes(low, <<"a","n","g","r","y">>) THEN <<"A","n","g","r","y">>
              ELSE <<"N","e","u","t","r","a","l">>)
        /\ upstream.content = Str(<<"h","a","p","p","y">>) => response = Str(<<"H","a","p","p","y">>)

C11_Witness ==
  /\ WorkflowAnswer(<<"d","e","t","e","c","t","_","e","m","o","t","i","o","n">>)
  /\ upstream.content = Str(<<"S","a","d",","," ","n","o","t"," ","H","A","P","P","Y">>)
  /\ res[1].body.response = Str(<<"H","a","p","p","y">>)

\* C12: formatCategoryResult lower-cases, trims and collapses the internal whitespace
\* of its input and returns the first category, in the declared order, whose
\* lower-cased whitespace-collapsed name is a substring of it, Personal & General when
\* none is; a category named with runs of spaces between its words maps to it.
C12_CategorySnapping ==
  WorkflowAnswer(<<"c","a","t","e","g","o","r","i","z","e","_","t","e","x","t">>) =>
    LET input == collapseSpaces(trim(toLowerCase(result.s)))
        response == res[1].body.response
    IN  /\ response.t = "string"
        /\ response.s =
             (IF includes(input, <<"w","o","r","k"," ","&"," ","c","a","r","e","e","r">>) THEN <<"W","o","r","k"," ","&"," ","C","a","r","e","e","r">>
              ELSE IF includes(input, <<"f","a","m","i","l","y"," ","&"," ","r","e","l","a","t","i","o","n","s","h","i","p","s">>) THEN <<"F","a","m","i","l","y"," ","&"," ","R","e","l","a","t","i","o","n","s","h","i","p","s">>
              ELSE IF includes(input, <<"h","e","a","l","t","h"," ","&"," ","w","e","l","l","n","e","s","s">>) THEN <<"H","e","a","l","t","h"," ","&"," ","W","e","l","l","n","e","s","s">>
              ELSE IF includes(input, <<"f","i","n","a","n","c","e"," ","&"," ","m","o","n","e","y">>) THEN <<"F","i","n","a","n","c","e"," ","&"," ","M","o","n","e","y">>
              ELSE <<"P","e","r","s","o","n","a","l"," ","&"," ","G","e","n","e","r","a","l">>)

C13_Schedule == <<2000, 4000, 8000>>

\* The attempts, delays and end of one invocation as its own outcomes decide them
C13_OwnOutcomesDecide(c) ==
  LET o == c.outcomes
      retried == Cardinality({i \in 1..Len(o) : o[i] = "rate_limited" /\ i <= 3})
  IN  /\ \A i \in 1..(Len(o) - 1) : o[i] = "rate_limited"
      /\ Len(o) <= 4
      /\ c.sleeps = SubSeq(C13_Schedule, 1, retried)
      /\ c.sent = Len(o) + (IF c.pc = "awaiting" THEN 1 ELSE 0)
      /\ c.retryCount = retried - (IF c.pc = "sleeping" THEN 1 ELSE 0)
      /\ c.pc = "returned" <=> (o # <<>> /\ Last(o) = "success")
      /\ c.pc = "raised" <=>
           (o # <<>> /\ (Last(o) = "failed" \/ (Last(o) = "rate_limited" /\ Len(o) = 4)))
      /\ c.pc = "raised" => c.result.retryCount = Num(Len(o) - 1)

\* C13: in every interleaving of concurrently handled requests, the number of upstream
\* attempts, the backoff delays and the outcome of a request depend only on its own
\* sequence of upstream outcomes, and a step of one request (a rate-limited failure,
\* an exhausted budget) changes nothing of another request.
C13_RetryStateLocal ==
  /\ [](\A r \in Requests : C13_OwnOutcomesDecide(calls[r]))
  /\ [][\A r, q \in Requests : (calls'[r] # calls[r] /\ q # r) => calls'[q] = calls[q]]_vars

C13_Witness ==
  /\ calls[1].pc = "sleeping"
  /\ calls[1].outcomes = <<"rate_limited", "rate_limited", "rate_limited">>
  /\ calls[1].sleeps = <<2000, 4000, 8000>>
  /\ calls[2].pc = "awaiting"
  /\ calls[2].retryCount = 0
  /\ calls[2].sent = 1

\* The request was answered with an error response
C14_ErrorAnswered == pc \in {"done", "thrown"} /\ res # <<>> /\ res[1].status # Num(200)

\* The error response was written by the handler's catch block
C14_FromCatch == pc = "done" /\ result # Nothing /\ res[1].status # Num(200)

C14_Lines(text) == split(text, "\n")

C14_NoDetails == {"stack", "originalError"} \cap DOMAIN res[1].body = {}

RECURSIVE C15_Sum(_)
C15_Sum(q) == IF q = <<>> THEN 0 ELSE q[1] + C15_Sum(Tail(q))

C15_Sleeps ==
  /\ Len(sleeps) <= 3
  /\ \A i \in 1..Len(sleeps) :
       /\ sleeps[i] = (IF 2000 * (2 ^ (i - 1)) < 30000 THEN 2000 * (2 ^ (i - 1)) ELSE 30000)
       /\ sleeps[i] = <<2000, 4000, 8000>>[i]
       /\ sleeps[i] < 30000
       /\ attempts[i] = "rate_limited"
  /\ C15_Sum(sleeps) <= 14000
  /\ sent = <<>> => sleeps = <<>>
  /\ pc = "sleeping" => (Len(sleeps) = Len(sent) /\ retryCount = Len(sleeps) - 1)
  /\ pc \in {"calling", "awaiting"} => retryCount = Len(sleeps)
  /\ pc = "awaiting" => Len(sent) = Len(sleeps) + 1
  /\ (Raised \/ Returned) => Len(sleeps) = Len(attempts) - 1

\* C15: the sleep before the retry that follows a rate-limited failure at retryCount
\* k (0, 1, 2) is min(2000 * 2^k, 30000) ms: 2000, 4000, 8000 in that order; there is
\* no sleep before the first attempt or after the last failed one, a retry is sent
\* only after its sleep is over, and the sleeps of a request total at most 14000 ms,
\* so the 30000 ms cap is never the value used.
C15_BackoffSchedule ==
  /\ [](C15_Sleeps)
  /\ [][(pc = "sleeping" => sent' = sent) /\ (Len(sleeps') > Len(sleeps) => pc' = "sleeping")]_vars

C15_Witness ==
  /\ pc = "sleeping"
  /\ sleeps = <<2000, 4000, 8000>>
  /\ retryCount = 2
  /\ Len(sent) = 3

\* callAIAgent has raised the error it built from the provider's failure
C16_RaisedByClient == Raised /\ pc = "caught" /\ "originalError" \in DOMAIN result

\* The text of an error body: a string as it is, an object as its JSON text
C16_Stringified(body) ==
  IF body.t = "string" THEN body.s
  ELSE <<"{">>
         \o (IF Truthy(Get(body, "message"))
             THEN <<"\"","m","e","s","s","a","g","e","\"",":","\"">> \o body.message.s \o <<"\"",",">> ELSE <<>>)
         \o (IF Truthy(Get(body, "code")) /\ body.code.t = "string"
             THEN <<"\"","c","o","d","e","\"",":","\"">> \o body.code.s \o <<"\"">> ELSE <<>>)
         \o <<"}">>

C16_Terms == {<<"r","a","t","e">>, <<"l","i","m","i","t">>} \cup (IF client = "groq" THEN {<<"q","u","o","t","a">>} ELSE {})

\* C16: a failure is classified rate-limited exactly when its status code is 429, or
\* its message contains 'rate' or 'limit' in any letter case (Groq client: also
\* 'quota'), or its stringified body contains one of those terms; a body, string or
\* structured, that mentions 'limit' is enough by itself.
C16_Classification ==
  C16_RaisedByClient =>
    LET error == result.originalError
        message == toLowerCase(ErrorMessage(error))
        body == ErrorBody(error)
        bodyText == IF Truthy(body) THEN toLowerCase(C16_Stringified(body)) ELSE <<>>
    IN  result.isRateLimit.b <=>
          \/ ErrorCode(client, error) = Num(429)
          \/ \E w \in C16_Terms : includes(message, w)
          \/ \E w \in C16_Terms : includes(bodyText, w)

\* The status code the claim describes: the first present of status, statusCode, a
\* numeric code, the nested response status, a numeric nested error code, else 500
C17_Extracted(error) ==
  IF Truthy(Get(error, "status")) THEN error.status
  ELSE IF Truthy(Get(error, "statusCode")) THEN error.statusCode
  ELSE IF Truthy(Get(error, "code")) /\ error.code.t = "number" THEN error.code
  ELSE IF Truthy(Get(Get(error, "response"), "status")) THEN error.response.status
  ELSE IF Truthy(Get(Get(error, "error"), "code")) /\ error.error.code.t = "number"
  THEN error.error.code
  ELSE Num(500)

\* C17: the statusCode of every error callAIAgent raises is a number: the first
\* present of the failure's status, statusCode, numeric code, nested response status
\* and nested error code, 500 when there is none (401 for an authentication failure);
\* a code that is not a number is never used as the status.
C17_StatusExtraction ==
  C16_RaisedByClient =>
    /\ result.statusCode.t = "number"
    /\ \/ result.statusCode = C17_Extracted(result.originalError)
       \/ result.statusCode = Num(401)

C18_Bounded ==
  /\ Len(sent) <= 4
  /\ Len(sleeps) <= 3
  /\ \A i \in 1..(Len(attempts) - 1) : attempts[i] = "rate_limited"
  /\ (attempts # <<>> /\ Last(attempts) = "success") => Returned
  /\ (attempts # <<>> /\ Last(attempts) = "failed") => Raised
  /\ (attempts # <<>> /\ Last(attempts) = "rate_limited") =>
       IF Len(attempts) = 4 THEN Raised ELSE pc \in {"sleeping", "calling", "awaiting"}
  /\ Raised =>
       /\ result.retryCount = Num(Len(sleeps))
       /\ result.retryCount = Num(Len(sent) - 1)
       /\ result = EnhancedError(client, result.originalError, Len(sent) - 1)
       /\ result.isRateLimit.b <=> Last(attempts) = "rate_limited"

\* C18: for every sequence of upstream outcomes, provided each upstream call returns,
\* one callAIAgent request ends after at most 4 upstream calls and at most 3 sleeps,
\* at the first success or the first failure that is not rate-limited; the failure
\* a later attempt raises reaches the caller as that attempt built it, so its
\* retryCount is the number of retries performed.
C18_BoundedTermination ==
  /\ [](C18_Bounded)
  /\ [][pc = "caught" => result' = result]_vars
  /\ (pc = "calling") ~> (Returned \/ Raised)

C18_Witness ==
  /\ pc = "caught"
  /\ attempts = <<"rate_limited", "rate_limited", "failed">>
  /\ result.retryCount = Num(2)
  /\ result.statusCode = Num(401)
  /\ sleeps = <<2000, 4000>>

\* The raised failure's message also holds a word of the authentication branch or of
\* the provider branch
C19_AlsoAuthOrProvider ==
  LET message == ErrorMessage(result.originalError)
  IN  \/ \E w \in C6_AuthWords : includes(message, w)
      \/ includes(message, IF client = "groq" THEN <<"m","o","d","e","l">> ELSE <<"p","r","o","v","i","d","e","r">>)
      \/ client = "groq" /\ includes(message, <<"n","o","t"," ","f","o","u","n","d">>)

\* C19: a failure classified rate-limited whose message also contains a word of the
\* authentication (or provider) branch is retried while retryCount < 3 and, with the
\* retries exhausted, raised with the rate-limit message and the extracted status
\* code, never with the 401 override, the authentication or the provider message.
C19_RateLimitFirst ==
  (C16_RaisedByClient /\ Last(attempts) = "rate_limited" /\ C19_AlsoAuthOrProvider) =>
    /\ result.retryCount = Num(3)
    /\ Len(sent) = 4
    /\ Len(sleeps) = 3
    /\ includes(result.message.s, <<"R","a","t","e"," ","l","i","m","i","t"," ","e","x","c","e","e","d","e","d">>)
    /\ includes(result.message.s, <<"R","e","t","r","i","e","d"," ","3"," ","t","i","m","e","s">>)
    /\ result.message.s \notin C6_AuthMessages
    /\ ~includes(result.message.s, <<"u","n","a","v","a","i","l","a","b","l","e">>)
    /\ result.statusCode = ErrorCode(client, result.originalError)
    /\ result.isRateLimit = [t |-> "boolean", b |-> TRUE]

C19_Witness ==
  /\ C16_RaisedByClient
  /\ ErrorMessage(result.originalError) = <<"l","i","m","i","t"," ","r","e","a","c","h","e","d",":"," ","u","n","a","u","t","h","o","r","i","z","e","d">>
  /\ result.statusCode = Num(503)
  /\ result.retryCount = Num(3)
  /\ includes(result.message.s, <<"R","e","t","r","i","e","d"," ","3"," ","t","i","m","e","s">>)

\* The handler's catch block has run on the error in result
C20_Failed == pc \in {"done", "thrown"} /\ result # Nothing /\ result.t = "object"

\* C20: for every failed POST /chat whose error has isRateLimit set or whose status is
\* 429, the error field of the HTTP body is the handler's 'Please wait 10-15 seconds'
\* message in place of the message raised, so 'Retried 3 times' never reaches the
\* HTTP caller; for every other failure the error field is the raised message.
C20_MessageReplaced ==
  C20_Failed =>
    /\ Len(res) = 1
    /\ "error" \in DOMAIN res[1].body
    /\ IF Truthy(Get(result, "isRateLimit")) \/ StatusOf(result) = Num(429)
       THEN /\ res[1].body.error = Str(<<"R","a","t","e"," ","l","i","m","i","t"," ","e","x","c","e","e","d","e","d","."," ","P","l","e","a","s","e"," ","w","a","i","t"," ","1","0","-","1","5"," ","s","e","c","o","n","d","s"," ","a","n","d"," ","t","r","y"," ","a","g","a","i","n","."," ","T","h","e"," ","f","r","e","e"," ","m","o","d","e","l"," ","h","a","s"," ","u","s","a","g","e"," ","l","i","m","i","t","s",".">>)
            /\ ~includes(res[1].body.error.s, <<"R","e","t","r","i","e","d"," ","3"," ","t","i","m","e","s">>)
       ELSE res[1].body.error = result.message

\* The requests that the handler's catch block answers itself
C20_Answered == pc = "thrown" \/ C20_MessageReplaced

====
